---- MODULE Spec2Model ----
(***************************************************************************)
(* Asya actor runtime (asya_runtime.py): the framed request loop, envelope *)
(* validation and the payload / envelope handler modes, together with the  *)
(* per-message state machine of the sidecar that drives it.                *)
(*                                                                         *)
(* JSON values are abstracted by their shape.  A route is a record that    *)
(* says whether it is a JSON object, whether "actors" is a list, and what  *)
(* kind of value "current" holds; Python's bool is a subclass of int, so   *)
(* the kind "bool" passes isinstance(x, int) and counts as 0 or 1.  The    *)
(* kind "str" stands for any non-numeric JSON value.  Python indexes from  *)
(* 0 and TLA+ from 1: actors[k] in the source is actors[k + 1] here.       *)
(***************************************************************************)
EXTENDS Integers, Sequences, FiniteSets

VARIABLES
    mode,        \* ASYA_HANDLER_MODE
    validation,  \* ASYA_ENABLE_VALIDATION
    rpc,         \* position of handle_requests: accept, handle, send, close
    openConns,   \* connections accepted and not yet closed
    req,         \* the framed request of the connection being served
    hinfo,       \* what the user handler did for this request
    resp,        \* value returned by (or escaping from) _handle_request
    sent,        \* outcome of json.dumps + _send_envelope for this request
    errAnswered, \* an error response has been written on an earlier connection
    spc,         \* sidecar: position in the per-message state machine
    msg,         \* sidecar: the envelope of the consumed message
    sresp,       \* sidecar: the runtime's answer for this hop
    plan,        \* sidecar: the publishes the answer implies
    pubs,        \* sidecar: publishes accepted by the transport, this delivery
    failed,      \* sidecar: a publish of this delivery was refused
    inQueue,     \* sidecar: the input message is still owned by the transport
    acked,       \* sidecar: the input message has been acknowledged
    deliveries,  \* sidecar: number of deliveries of the input message
    rt,          \* the runtime as the sidecar's socket meets it: up, busy, down
    attempts,    \* sidecar: failed socket attempts of the exchange under way
    hop,         \* sidecar: how the socket exchange of the current hop ended
    timedOut,    \* recovery scenario: a hop of an earlier envelope timed out
    boot,        \* position of the runtime process: start, loaded, listening,
                 \* opening, marked, ready, exited, stopped, killed
    descriptor,  \* what ASYA_HANDLER names
    sock,        \* the listening socket: none, listening, closed
    instances,   \* instantiations of the handler class so far
    memo,        \* state the handler instance keeps: calls it has recorded
    seen,        \* the instance state the latest call found when it began
    bucket,      \* end actor: the objects in its bucket, each a key and a body
    wire,        \* the frame being read: configured chunk size, stream, progress
    proc,        \* the runtime process: its files, its signal handlers, _cleanup
    progress     \* sidecar: envelopes in flight, the progress channel, events emitted

vars == <<mode, validation, rpc, openConns, req, hinfo, resp, sent, errAnswered,
          spc, msg, sresp, plan, pubs, failed, inQueue, acked, deliveries,
          rt, attempts, hop, timedOut,
          boot, descriptor, sock, instances, memo, seen, bucket, wire, proc, progress>>

lifeVars == <<boot, descriptor, sock, instances, memo, seen, bucket, wire, proc, progress>>
runtimeVars == <<rpc, openConns, req, hinfo, resp, sent, errAnswered>>
sidecarVars == <<spc, msg, sresp, plan, pubs, failed, inQueue, acked, deliveries,
                 rt, attempts, hop, timedOut>>

\* ---------------------------------------------------------------- bounds
MaxActors == 2
MaxOut == 2
MaxDeliveries == 2
MaxAttempts == 2
MaxCalls == 3
MaxEnvelopes == 2

Actors == {"a", "b"}
VALID_ASYA_HANDLER_MODES == {"payload", "envelope"}

\* ------------------------------------------------------------ JSON shapes
ActorSeqs == UNION {[1..n -> Actors] : n \in 0..MaxActors}

IntRoute(as, c) ==
    [kind |-> "dict", actorsKind |-> "list", actors |-> as,
     currentKind |-> "int", current |-> c]

RouteAbsent ==
    [kind |-> "absent", actorsKind |-> "absent", actors |-> <<>>,
     currentKind |-> "absent", current |-> 0]

RouteNonDict == [RouteAbsent EXCEPT !.kind = "nondict"]

IntRoutes == {IntRoute(as, c) : as \in ActorSeqs, c \in (-1)..(MaxActors + 1)}

DefectRoutes ==
    {RouteAbsent, RouteNonDict,
     [IntRoute(<<>>, 0) EXCEPT !.actorsKind = "absent"],
     [IntRoute(<<>>, 0) EXCEPT !.actorsKind = "nonlist"]}
    \cup {[IntRoute(as, 0) EXCEPT !.currentKind = "absent"] : as \in ActorSeqs}
    \cup {[IntRoute(as, 0) EXCEPT !.currentKind = "str"] : as \in ActorSeqs}
    \cup {[IntRoute(as, b) EXCEPT !.currentKind = "bool"] :
              as \in ActorSeqs, b \in {0, 1}}

Env(p, r, hd, i) ==
    [kind |-> "dict", payload |-> p, route |-> r, headers |-> hd, id |-> i]

\* a JSON value that is not an object (a handler may return one)
NonDictItem == [Env("absent", RouteAbsent, "absent", "absent") EXCEPT !.kind = "nondict"]

\* a bare payload as a payload-mode handler returns it
PayloadItem(p) == Env(p, RouteAbsent, "absent", "absent")

NoEnv == Env("absent", RouteAbsent, "absent", "absent")

\* ---------------------------------------------------------------- framing
\* ASYA_CHUNK_SIZE when the environment does not set it
DefaultChunkSize == 65536

\* no frame on the connection; c is the configured ASYA_CHUNK_SIZE
NoFrame(c) ==
    [phase |-> "idle", chunk |-> c, env |-> [c |-> 0, n |-> 0], pending |-> <<>>,
     need |-> 0, got |-> <<>>, length |-> 0, shorts |-> 0, parsed |-> "none"]

\* ------------------------------------------------------- Python helpers
Min(a, b) == IF a <= b THEN a ELSE b
Max(a, b) == IF a >= b THEN a ELSE b

\* s[:stop]
PySlice(s, stop) ==
    SubSeq(s, 1, IF stop >= 0 THEN Min(stop, Len(s)) ELSE Max(Len(s) + stop, 0))

\* s[i] raises IndexError unless -len(s) <= i < len(s)
PyIndexOk(s, i) == i >= 0 - Len(s) /\ i < Len(s)
PyIndex(s, i) == IF i >= 0 THEN s[i + 1] ELSE s[Len(s) + i + 1]

\* route.get("actors", []) and route.get("current", 0)
RouteActors(r) == IF r.actorsKind = "list" THEN r.actors ELSE <<>>
RouteCurrent(r) == IF r.currentKind = "absent" THEN 0 ELSE r.current

\* ------------------------------------------------------ _validate_envelope
NoCtx == [has |-> FALSE, expected |-> "", inputRoute |-> RouteAbsent]

\* "Default current to 0 if not present"
DefaultCurrent(r) ==
    IF r.currentKind = "absent"
    THEN [r EXCEPT !.currentKind = "int", !.current = 0]
    ELSE r

\* isinstance(route["current"], int): True for int and for bool
IsInstanceInt(r) == r.currentKind \in {"int", "bool"}

\* "Allow current to equal len(actors) to signal end-of-route"
CurrentInBounds(r) == ~(r.current < 0 \/ r.current > Len(r.actors))

\* "Check that all actors up to and including current are preserved"
ProcessedPrefixOk(r, inputRoute) ==
    LET processed_actors == PySlice(RouteActors(inputRoute), RouteCurrent(inputRoute) + 1)
        output_prefix == PySlice(r.actors, Len(processed_actors))
    IN  output_prefix = processed_actors

\* "Check that the actor at the INPUT's current position hasn't changed"
CurrentActorOk(r, expected, inputRoute) ==
    LET input_current == RouteCurrent(inputRoute)
    IN  input_current < Len(r.actors) =>
            (PyIndexOk(r.actors, input_current)
                /\ PyIndex(r.actors, input_current) = expected)

ValidateEnvelope(e, ctx) ==
    LET r == DefaultCurrent(e.route)
        accepted ==
            /\ e.kind = "dict"
            /\ e.payload # "absent"
            /\ e.route.kind = "dict"
            /\ e.route.actorsKind = "list"
            /\ IsInstanceInt(r)
            /\ Len(r.actors) # 0
            /\ CurrentInBounds(r)
            /\ e.headers # "nondict"
            /\ (ctx.has => ProcessedPrefixOk(r, ctx.inputRoute))
            /\ (ctx.has => CurrentActorOk(r, ctx.expected, ctx.inputRoute))
            /\ e.id # "nonstr"
    IN  IF accepted
        THEN [ok |-> TRUE, env |-> Env(e.payload, r, e.headers, e.id)]
        ELSE [ok |-> FALSE, env |-> NoEnv]

\* _get_current_actor: actors[current], IndexError / KeyError / TypeError otherwise
GetCurrentActorOk(e) ==
    /\ e.route.kind = "dict"
    /\ e.route.actorsKind = "list"
    /\ e.route.currentKind \in {"int", "bool"}
    /\ PyIndexOk(e.route.actors, e.route.current)
GetCurrentActor(e) == PyIndex(e.route.actors, e.route.current)

\* --------------------------------------------------------- _error_response
\* the error dropped and an empty list returned in its place
ErrorResponse_Empty(code, invoked) ==
    [kind |-> "ok", code |-> "", outs |-> <<>>, invoked |-> invoked]

ErrorResponse(code, invoked) ==
    [kind |-> "error", code |-> code, outs |-> <<>>, invoked |-> invoked]

OkResponse(outs) == [kind |-> "ok", code |-> "", outs |-> outs, invoked |-> TRUE]

\* an exception that _handle_request does not catch: nothing is returned
EscapedException ==
    [kind |-> "escaped", code |-> "TypeError", outs |-> <<>>, invoked |-> FALSE]

\* --------------------------------------------------------- _handle_request
\* None taken for a value instead of "no output"
NormalizeReturn_NoneAsValue(h) ==
    IF h.ret = "none" THEN <<PayloadItem("null")>> ELSE h.outs

\* a list handed on back to front
NormalizeReturn_Reversed(h) ==
    CASE h.ret = "none" -> <<>>
      [] h.ret = "list" -> [i \in 1..Len(h.outs) |-> h.outs[Len(h.outs) + 1 - i]]
      [] OTHER -> <<h.outs[1]>>

\* the handler's return value as a sequence (None, list/tuple, anything else)
NormalizeReturn(h) ==
    CASE h.ret = "none" -> <<>>
      [] h.ret = "list" -> h.outs
      [] OTHER -> <<h.outs[1]>>

\* the route copied without advancing the cursor
OutputRoute_NoIncrement(r) == [r EXCEPT !.currentKind = "int"]

\* the cursor moved two positions on
OutputRoute_SkipsOne(r) == [r EXCEPT !.currentKind = "int", !.current = r.current + 2]

\* "Build output route with incremented current"
OutputRoute(r) == [r EXCEPT !.currentKind = "int", !.current = r.current + 1]

\* only the first item of the list is turned into an envelope
BuildOutputs_FirstOnly(e, payload_list) ==
    [i \in 1..Min(1, Len(payload_list)) |->
        Env(payload_list[i].payload, OutputRoute(e.route), e.headers, "absent")]

\* the input's route put on the outputs instead of the advanced copy
BuildOutputs_InputRoute(e, payload_list) ==
    [i \in 1..Len(payload_list) |->
        Env(payload_list[i].payload, e.route, e.headers, "absent")]

\* the whole input envelope copied, with payload and route replaced
BuildOutputs_CopiesInput(e, payload_list) ==
    [i \in 1..Len(payload_list) |->
        Env(payload_list[i].payload, OutputRoute(e.route), e.headers, e.id)]

\* "Build output envelopes with updated route"
BuildOutputs(e, payload_list) ==
    [i \in 1..Len(payload_list) |->
        Env(payload_list[i].payload, OutputRoute(e.route), e.headers, "absent")]

PayloadModeResponse(e, h) ==
    IF e.payload = "absent"
    THEN ErrorResponse("processing_error", FALSE)
    ELSE IF h.ret = "raise"
    THEN ErrorResponse("processing_error", TRUE)
    ELSE IF e.route.kind # "dict" \/ e.route.currentKind \in {"absent", "str"}
    THEN ErrorResponse("processing_error", TRUE)
    ELSE OkResponse(BuildOutputs(e, NormalizeReturn(h)))

\* the input envelope as the runtime reads it after the handler returned: the
\* handler was handed the dict itself and may have changed its route in place
\* before returning it as its first output
AfterHandler(e, h) ==
    IF h.inplace /\ NormalizeReturn(h) # <<>>
    THEN [e EXCEPT !.route = NormalizeReturn(h)[1].route]
    ELSE e

OutputCtx(e) ==
    [has |-> TRUE, expected |-> GetCurrentActor(e), inputRoute |-> e.route]

ValidateOutputs(e, out_list) ==
    IF \A i \in 1..Len(out_list) :
            GetCurrentActorOk(e) /\ ValidateEnvelope(out_list[i], OutputCtx(e)).ok
    THEN OkResponse([i \in 1..Len(out_list) |->
                        ValidateEnvelope(out_list[i], OutputCtx(e)).env])
    ELSE ErrorResponse("processing_error", TRUE)

\* outputs validated whatever ASYA_ENABLE_VALIDATION says
EnvelopeModeResponse_AlwaysValidate(val, e, h) ==
    IF h.ret = "raise"
    THEN ErrorResponse("processing_error", TRUE)
    ELSE ValidateOutputs(AfterHandler(e, h), NormalizeReturn(h))

EnvelopeModeResponse(val, e, h) ==
    IF h.ret = "raise"
    THEN ErrorResponse("processing_error", TRUE)
    ELSE IF val
    THEN ValidateOutputs(AfterHandler(e, h), NormalizeReturn(h))
    ELSE OkResponse(NormalizeReturn(h))

\* a connection closed early taken for a complete, empty frame
RecvFrame_ShortAsData(rq) == IF rq.read = "oserror" THEN "Exception" ELSE "data"

\* _recv_exact for the 4-byte prefix and for the announced body: the bytes, or
\* ConnectionError when the peer closed first, or whatever recv raised
RecvFrame(rq) ==
    CASE rq.read = "ok" -> "data"
      [] rq.read = "closed" -> "ConnectionError"
      [] OTHER -> "Exception"

HandleRequestOp(md, val, rq, h) ==
    IF RecvFrame(rq) # "data"
    THEN ErrorResponse("connection_error", FALSE)
    ELSE IF rq.body \in {"badjson", "badutf8", "empty"}
    THEN ErrorResponse("msg_parsing_error", FALSE)
    ELSE IF val /\ rq.body = "scalar"
    THEN EscapedException
    ELSE IF val /\ rq.body = "container"
    THEN ErrorResponse("msg_parsing_error", FALSE)
    ELSE IF val /\ ~ValidateEnvelope(rq.env, NoCtx).ok
    THEN ErrorResponse("msg_parsing_error", FALSE)
    ELSE IF rq.body # "object"
    THEN ErrorResponse("processing_error", FALSE)
    ELSE LET e == IF val THEN ValidateEnvelope(rq.env, NoCtx).env ELSE rq.env
         IN  IF md = "payload"
             THEN PayloadModeResponse(e, h)
             ELSE EnvelopeModeResponse(val, e, h)

\* ------------------------------------------------- requests and handlers
\* envelopes a peer may frame: every route shape, and on a two-actor route
\* one variation at a time in the other fields
BaseRoutes == {IntRoute(<<"a", "b">>, c) : c \in 0..2}

InputEnvs ==
    {Env("p", r, "absent", "E1") : r \in IntRoutes \cup DefectRoutes}
    \cup {Env("p", r, hd, "E1") : r \in BaseRoutes, hd \in {"h1", "nondict"}}
    \cup {Env(p, IntRoute(<<"a", "b">>, 0), "absent", i) :
              p \in {"absent", "null"}, i \in {"absent", "nonstr", "E1"}}

NoRequest == [read |-> "none", body |-> "none", env |-> NoEnv]

Requests ==
    {[read |-> rd, body |-> "none", env |-> NoEnv] : rd \in {"closed", "oserror"}}
    \cup {[read |-> "ok", body |-> b, env |-> NoEnv] :
              b \in {"badjson", "badutf8", "empty", "scalar", "container"}}
    \cup {[read |-> "ok", body |-> "object", env |-> e] : e \in InputEnvs}

Return(ret, outs, inplace) == [ret |-> ret, outs |-> outs, inplace |-> inplace]

Raises == Return("raise", <<>>, FALSE)

\* what a payload handler may return: None, one value (possibly one that
\* json.dumps cannot serialize), or a list of values
PayloadReturns ==
    {Raises, Return("none", <<>>, FALSE)}
    \cup {Return("single", <<PayloadItem(p)>>, FALSE) : p \in {"q", "null", "unser"}}
    \cup {Return("list", s, FALSE) :
              s \in UNION {[1..n -> {PayloadItem("q"), PayloadItem("r")}] : n \in 0..MaxOut}}

\* envelopes an envelope handler may build from its input e
OutEnvs(e) ==
    {Env("q", r, e.headers, e.id) : r \in IntRoutes}
    \cup {e, NonDictItem,
          Env("absent", e.route, e.headers, e.id),
          Env("unser", e.route, e.headers, e.id),
          Env("q", RouteAbsent, e.headers, e.id),
          Env("q", RouteNonDict, e.headers, e.id),
          Env("q", e.route, "nondict", e.id),
          Env("q", e.route, e.headers, "nonstr")}

\* the other elements of a fan-out list whose first (or last) element is o
Siblings(e, o) ==
    {o, NonDictItem, Env("q", RouteAbsent, e.headers, e.id)}
    \cup (IF o.route.kind = "dict"
          THEN {[o EXCEPT !.route.current = @ + 1],
                [o EXCEPT !.route.actors = [i \in DOMAIN @ |-> "b"]]}
          ELSE {})

FanOutsOf(e, o, n) ==
    UNION {{[i \in 1..n |-> IF i = 1 THEN o ELSE s],
            [i \in 1..n |-> IF i = n THEN o ELSE s]} : s \in Siblings(e, o)}

FanOuts(e) == UNION {FanOutsOf(e, o, n) : n \in 2..MaxOut, o \in OutEnvs(e)}

EnvelopeReturns(e) ==
    {Raises, Return("none", <<>>, FALSE), Return("list", <<>>, FALSE)}
    \cup {Return("single", <<o>>, ip) : o \in OutEnvs(e), ip \in BOOLEAN}
    \cup {Return("list", <<o>>, FALSE) : o \in OutEnvs(e)}
    \cup {Return("list", s, FALSE) : s \in FanOuts(e)}

\* whether the request gets as far as the user function does not depend on
\* what the function would do
ReachesHandler(md, val, rq) == HandleRequestOp(md, val, rq, Raises).invoked

\* the envelope handed to the handler
HandlerInput(val, rq) ==
    IF val THEN ValidateEnvelope(rq.env, NoCtx).env ELSE rq.env

HandlerReturns(md, val, rq) ==
    IF ~ReachesHandler(md, val, rq) THEN {Raises}
    ELSE IF md = "payload" THEN PayloadReturns
    ELSE EnvelopeReturns(HandlerInput(val, rq))

NotCalled ==
    [called |-> FALSE, ret |-> "none", n |-> 0, inplace |-> FALSE, outs |-> <<>>]

HandlerInfo(r, h) ==
    IF r.invoked
    THEN [called |-> TRUE, ret |-> h.ret, n |-> Len(h.outs), inplace |-> h.inplace,
          outs |-> h.outs]
    ELSE NotCalled

NoResponse == [kind |-> "none", code |-> "", outs |-> <<>>, invoked |-> FALSE]

\* json.dumps(responses) raises TypeError on a value it cannot serialize
Serializable(r) == \A i \in 1..Len(r.outs) : r.outs[i].payload # "unser"

\* --------------------------------------------------------- handle_requests
\* conn, _ = sock.accept()
Accept ==
    /\ rpc = "accept"
    /\ rpc' = "handle"
    /\ openConns' = openConns + 1
    /\ UNCHANGED <<mode, validation, req, hinfo, resp, sent, errAnswered>>
    /\ UNCHANGED sidecarVars
    /\ UNCHANGED lifeVars

\* responses = _handle_request(conn, func)
HandleRequest ==
    /\ rpc = "handle"
    /\ \E rq \in Requests :
        \E h \in HandlerReturns(mode, validation, rq) :
            /\ req' = rq
            /\ resp' = HandleRequestOp(mode, validation, rq, h)
            /\ hinfo' = HandlerInfo(resp', h)
    /\ rpc' = "send"
    /\ UNCHANGED <<mode, validation, openConns, sent, errAnswered>>
    /\ UNCHANGED sidecarVars
    /\ UNCHANGED lifeVars

\* response_data = json.dumps(responses).encode("utf-8"); _send_envelope(...)
\* BrokenPipeError when the peer is gone; any other exception is logged as
\* "Failed to send response"
SendOutcome(r, peerOpen) ==
    IF r.kind = "escaped" \/ ~Serializable(r) THEN "failed"
    ELSE IF ~peerOpen THEN "brokenpipe"
    ELSE "written"

\* a write that failed tried again on the same connection
AfterSend_RetryOnFailure(s) == IF s = "failed" THEN "send" ELSE "close"

\* every except clause of the inner try leads to finally: conn.close()
AfterSend(s) == "close"

SendResponse ==
    /\ rpc = "send"
    /\ \E peerOpen \in BOOLEAN : sent' = SendOutcome(resp, peerOpen)
    /\ rpc' = AfterSend(sent')
    /\ UNCHANGED <<mode, validation, openConns, req, hinfo, resp, errAnswered>>
    /\ UNCHANGED sidecarVars
    /\ UNCHANGED lifeVars

\* leaving the loop once a request has failed
AfterClose_StopOnError(r, s) == IF r.kind = "ok" THEN "accept" ELSE "stopped"

\* after the try statement: back to the top of the while loop
AfterClose(r, s) == "accept"

\* a connection that is never closed
ConnsAfterClose_Leak(n) == n

\* finally: conn.close()
ConnsAfterClose(n) == n - 1

CloseConn ==
    /\ rpc = "close"
    /\ openConns' = ConnsAfterClose(openConns)
    /\ rpc' = AfterClose(resp, sent)
    /\ errAnswered' = (errAnswered \/ (sent = "written" /\ resp.kind = "error"))
    /\ req' = NoRequest
    /\ hinfo' = NotCalled
    /\ resp' = NoResponse
    /\ sent' = "pending"
    /\ UNCHANGED <<mode, validation>>
    /\ UNCHANGED sidecarVars
    /\ UNCHANGED lifeVars

SidecarIdle ==
    /\ spc = "idle"
    /\ msg = NoEnv
    /\ sresp = NoResponse
    /\ plan = <<>>
    /\ pubs = <<>>
    /\ failed = FALSE
    /\ inQueue = FALSE
    /\ acked = FALSE
    /\ deliveries = 0
    /\ rt = "up"
    /\ attempts = 0
    /\ hop = "none"
    /\ timedOut = FALSE

\* the process before handle_requests has done anything
Fresh ==
    [sockfile |-> FALSE, marker |-> "absent", handlers |-> FALSE,
     signal |-> "none", cleanup |-> "idle", busy |-> FALSE]

\* the process inside the accept loop of handle_requests
InLoop == [Fresh EXCEPT !.sockfile = TRUE, !.marker = "complete", !.handlers = TRUE]

Envelopes == 1..MaxEnvelopes

\* no envelope consumed yet, nothing on the progress channel
NoProgress ==
    [stage |-> [i \in Envelopes |-> "queued"], channel |-> <<>>, emitted |-> <<>>]

\* a runtime that has started with a plain function as its handler
Started ==
    /\ boot = "ready"
    /\ descriptor = "function"
    /\ sock = "listening"
    /\ instances = 0
    /\ memo = 0
    /\ seen = 0
    /\ bucket = {}
    /\ wire = NoFrame(DefaultChunkSize)
    /\ proc = InLoop
    /\ progress = NoProgress

Init ==
    /\ Started
    /\ mode \in VALID_ASYA_HANDLER_MODES
    /\ validation \in BOOLEAN
    /\ rpc = "accept"
    /\ openConns = 0
    /\ req = NoRequest
    /\ hinfo = NotCalled
    /\ resp = NoResponse
    /\ sent = "pending"
    /\ errAnswered = FALSE
    /\ SidecarIdle

Next == Accept \/ HandleRequest \/ SendResponse \/ CloseConn

Spec == Init /\ [][Next]_vars

\* ================================================================ sidecar
\* The sidecar is a separate program; its per-message state machine is the
\* one the specification gives: receive, frame to the runtime, classify the
\* answer, publish, acknowledge.  The runtime it talks to is the one above.
HappyEnd == "happy-end"
ErrorEnd == "error-end"

\* envelopes the transport delivers to an actor's queue
SidecarInputs ==
    {Env("p", IntRoute(as, c), hd, "E1") :
        as \in ActorSeqs \ {<<>>}, c \in 0..(MaxActors - 1), hd \in {"absent", "h1"}}

DeliverableInputs == {e \in SidecarInputs : e.route.current < Len(e.route.actors)}

\* the envelope framed on the socket
Frame(e) == [read |-> "ok", body |-> "object", env |-> e]

\* what the sidecar reads back: the response, or a connection closed without
\* one when the runtime wrote nothing
SidecarView(r) == IF SendOutcome(r, TRUE) = "written" THEN r ELSE NoResponse

\* an element of the response the sidecar can decode as an envelope
Decodable(o) ==
    /\ o.kind = "dict"
    /\ o.payload # "absent"
    /\ o.route.kind = "dict"
    /\ o.route.actorsKind = "list"
    /\ o.route.currentKind = "int"

\* the queue an envelope's route points to
NextQueue(r) ==
    IF r.current >= 0 /\ r.current < Len(r.actors)
    THEN r.actors[r.current + 1]
    ELSE HappyEnd

Publication(q, e, err) == [queue |-> q, env |-> e, error |-> err]

\* an output keeps the identity of the envelope it continues
Continuation(m, o) == [o EXCEPT !.id = IF @ = "absent" THEN m.id ELSE @]

\* response classification
Classify(m, r) ==
    IF r.kind = "error"
    THEN <<Publication(ErrorEnd, m, r.code)>>
    ELSE IF r.kind = "none" \/ \E i \in 1..Len(r.outs) : ~Decodable(r.outs[i])
    THEN <<Publication(ErrorEnd, m, "processing_error")>>
    ELSE IF Len(r.outs) = 0
    THEN <<Publication(HappyEnd, m, "none")>>
    ELSE [i \in 1..Len(r.outs) |->
            Publication(NextQueue(r.outs[i].route), Continuation(m, r.outs[i]), "none")]

\* acknowledging without waiting for the transport to accept the publishes
AckReady_Early(done, todo) == TRUE

\* the input is acknowledged once every implied publish has been accepted
AckReady(done, todo) == Len(done) = Len(todo)

Receive(m) ==
    /\ msg' = m
    /\ inQueue' = TRUE
    /\ deliveries' = 1
    /\ spc' = "received"
    /\ UNCHANGED <<mode, validation, rpc, openConns, req, hinfo, resp, sent, errAnswered>>
    /\ UNCHANGED <<sresp, plan, pubs, failed, acked, rt, attempts, hop>>
    /\ UNCHANGED timedOut
    /\ UNCHANGED lifeVars

\* a queue message whose bytes are not JSON
Malformed == [NoEnv EXCEPT !.kind = "badjson"]

UndecodableBodies == {Malformed, NonDictItem}

Deliver ==
    /\ spc = "idle"
    /\ \E m \in DeliverableInputs \cup UndecodableBodies : Receive(m)

ParsingError ==
    [kind |-> "error", code |-> "msg_parsing_error", outs |-> <<>>, invoked |-> FALSE]

RouteUndecodable_Dropped ==
    /\ spc = "received"
    /\ ~Decodable(msg)
    /\ sresp' = ParsingError
    /\ spc' = "done"
    /\ acked' = TRUE
    /\ inQueue' = FALSE
    /\ hop' = "undecoded"
    /\ UNCHANGED <<mode, validation>>
    /\ UNCHANGED runtimeVars
    /\ UNCHANGED <<msg, plan, pubs, failed, deliveries, rt, attempts>>
    /\ UNCHANGED timedOut
    /\ UNCHANGED lifeVars

RouteUndecodable ==
    /\ spc = "received"
    /\ ~Decodable(msg)
    /\ sresp' = ParsingError
    /\ spc' = "classify"
    /\ hop' = "undecoded"
    /\ UNCHANGED <<mode, validation>>
    /\ UNCHANGED runtimeVars
    /\ UNCHANGED <<msg, plan, pubs, failed, inQueue, acked, deliveries, rt, attempts>>
    /\ UNCHANGED timedOut
    /\ UNCHANGED lifeVars

\* one attempt more than the budget allows
WithinBudget_OneMore(n) == n <= MaxAttempts

\* what the handler did, as far as it shows on the sidecar's side of the
\* socket: the kind and the length of what it returned
HandlerSeen(r, h) == [HandlerInfo(r, h) EXCEPT !.outs = <<>>]

\* the reconnect budget of a hop is not used up
WithinBudget(n) == n < MaxAttempts

\* a passed deadline reported as a failure of the handler
TimeoutError_AsProcessingError ==
    [kind |-> "error", code |-> "processing_error", outs |-> <<>>, invoked |-> FALSE]

\* the sidecar's own error record for a hop whose deadline passed
TimeoutError ==
    [kind |-> "error", code |-> "timeout_error", outs |-> <<>>, invoked |-> FALSE]

\* the handler was called and has not returned
StillRunning ==
    [called |-> TRUE, ret |-> "pending", n |-> 0, inplace |-> FALSE, outs |-> <<>>]

\* one request on a fresh connection: write the frame, read the answer.  A
\* connection the runtime closes without a framed response is a short read:
\* the attempt is counted and the hop is tried again.  An answer ends the
\* reconnect loop and its count
Exchange(h) ==
    /\ spc = "received"
    /\ Decodable(msg)
    /\ rt = "up"
    /\ WithinBudget(attempts)
    /\ \E r \in {HandleRequestOp(mode, validation, Frame(msg), h)} :
            IF SidecarView(r) = NoResponse
            THEN /\ attempts' = attempts + 1
                 /\ UNCHANGED <<spc, hop, req, resp, hinfo, sresp>>
            ELSE /\ req' = Frame(msg)
                 /\ resp' = r
                 /\ hinfo' = HandlerSeen(r, h)
                 /\ sresp' = SidecarView(r)
                 /\ spc' = "classify"
                 /\ hop' = IF hop = "closed" THEN "recovered" ELSE "answered"
                 /\ attempts' = 0
    /\ UNCHANGED <<mode, validation, rpc, openConns, sent, errAnswered>>
    /\ UNCHANGED <<msg, plan, pubs, failed, inQueue, acked, deliveries, rt>>

Forward ==
    /\ spc = "received"
    /\ Decodable(msg)
    /\ rt = "up"
    /\ \E h \in HandlerReturns(mode, validation, Frame(msg)) : Exchange(h)
    /\ UNCHANGED timedOut
    /\ UNCHANGED lifeVars

\* connect refused or socket file missing: back off and try again
ConnectFails ==
    /\ spc = "received"
    /\ Decodable(msg)
    /\ rt = "down"
    /\ WithinBudget(attempts)
    /\ attempts' = attempts + 1
    /\ UNCHANGED <<mode, validation>>
    /\ UNCHANGED runtimeVars
    /\ UNCHANGED <<spc, msg, sresp, plan, pubs, failed, inQueue, acked, deliveries,
                   rt, hop>>
    /\ UNCHANGED timedOut
    /\ UNCHANGED lifeVars

\* the budget has elapsed: the hop is given up as a processing error
BudgetExhausted ==
    /\ spc = "received"
    /\ Decodable(msg)
    /\ ~WithinBudget(attempts)
    /\ hop' = "exhausted"
    /\ sresp' = NoResponse
    /\ spc' = "classify"
    /\ UNCHANGED <<mode, validation>>
    /\ UNCHANGED runtimeVars
    /\ UNCHANGED <<msg, plan, pubs, failed, inQueue, acked, deliveries, rt, attempts>>
    /\ UNCHANGED timedOut
    /\ UNCHANGED lifeVars

\* the per-hop deadline passes with no framed response: the frame was written
\* to a runtime whose handler does not return in time, or to one still inside
\* the handler call of an earlier hop; the sidecar closes the connection
DeadlineExpires ==
    /\ spc = "received"
    /\ Decodable(msg)
    /\ rt \in {"up", "busy"}
    /\ WithinBudget(attempts)
    /\ hop' = "deadline"
    /\ sresp' = TimeoutError
    /\ spc' = "classify"
    /\ req' = IF rt = "up" THEN Frame(msg) ELSE NoRequest
    /\ hinfo' = IF rt = "up" THEN StillRunning ELSE NotCalled
    /\ resp' = NoResponse
    /\ rt' = "busy"
    /\ UNCHANGED <<mode, validation, rpc, openConns, sent, errAnswered>>
    /\ UNCHANGED <<msg, plan, pubs, failed, inQueue, acked, deliveries, attempts>>
    /\ UNCHANGED timedOut
    /\ UNCHANGED lifeVars

\* the sidecar is not in the middle of a publish
BetweenExchanges == spc \in {"idle", "received"}

\* the handler call of an abandoned hop returns: the response meets a closed
\* connection (BrokenPipeError), the connection is closed and the loop is
\* back at accept()
AbandonedCallReturns_LoopEnds ==
    /\ rt = "busy"
    /\ BetweenExchanges
    /\ rt' = "down"
    /\ UNCHANGED <<mode, validation>>
    /\ UNCHANGED runtimeVars
    /\ UNCHANGED <<spc, msg, sresp, plan, pubs, failed, inQueue, acked, deliveries,
                   attempts, hop>>
    /\ UNCHANGED timedOut
    /\ UNCHANGED lifeVars

AbandonedCallReturns ==
    /\ rt = "busy"
    /\ BetweenExchanges
    /\ rt' = "up"
    /\ UNCHANGED <<mode, validation>>
    /\ UNCHANGED runtimeVars
    /\ UNCHANGED <<spc, msg, sresp, plan, pubs, failed, inQueue, acked, deliveries,
                   attempts, hop>>
    /\ UNCHANGED timedOut
    /\ UNCHANGED lifeVars

\* the runtime process is stopped from outside; _cleanup removes the socket
RuntimeStops ==
    /\ rt \in {"up", "busy"}
    /\ BetweenExchanges
    /\ rt' = "down"
    /\ UNCHANGED <<mode, validation>>
    /\ UNCHANGED runtimeVars
    /\ UNCHANGED <<spc, msg, sresp, plan, pubs, failed, inQueue, acked, deliveries,
                   attempts, hop>>
    /\ UNCHANGED timedOut
    /\ UNCHANGED lifeVars

\* the runtime process starts: handler loaded, socket bound and listening
RuntimeCrashesMidHop_Uncounted ==
    /\ spc = "received"
    /\ Decodable(msg)
    /\ rt = "up"
    /\ WithinBudget(attempts)
    /\ rt' = "down"
    /\ hop' = "closed"
    /\ UNCHANGED <<mode, validation>>
    /\ UNCHANGED runtimeVars
    /\ UNCHANGED <<spc, msg, sresp, plan, pubs, failed, inQueue, acked, deliveries,
                   attempts>>
    /\ UNCHANGED timedOut
    /\ UNCHANGED lifeVars

\* The runtime process is restarted while the handler is at work on the
\* request: the sidecar's connection closes before any response byte.
RuntimeCrashesMidHop ==
    /\ spc = "received"
    /\ Decodable(msg)
    /\ rt = "up"
    /\ WithinBudget(attempts)
    /\ rt' = "down"
    /\ attempts' = attempts + 1
    /\ hop' = "closed"
    /\ UNCHANGED <<mode, validation>>
    /\ UNCHANGED runtimeVars
    /\ UNCHANGED <<spc, msg, sresp, plan, pubs, failed, inQueue, acked, deliveries>>
    /\ UNCHANGED timedOut
    /\ UNCHANGED lifeVars

RuntimeStarts ==
    /\ rt = "down"
    /\ BetweenExchanges
    /\ rt' = "up"
    /\ UNCHANGED <<mode, validation>>
    /\ UNCHANGED runtimeVars
    /\ UNCHANGED <<spc, msg, sresp, plan, pubs, failed, inQueue, acked, deliveries,
                   attempts, hop>>
    /\ UNCHANGED timedOut
    /\ UNCHANGED lifeVars

ClassifyResponse ==
    /\ spc = "classify"
    /\ plan' = Classify(msg, sresp)
    /\ spc' = "publish"
    /\ UNCHANGED <<mode, validation>>
    /\ UNCHANGED runtimeVars
    /\ UNCHANGED <<msg, sresp, pubs, failed, inQueue, acked, deliveries,
                   rt, attempts, hop>>
    /\ UNCHANGED timedOut
    /\ UNCHANGED lifeVars

PublishAccepted ==
    /\ spc = "publish"
    /\ Len(pubs) < Len(plan)
    /\ pubs' = Append(pubs, plan[Len(pubs) + 1])
    /\ UNCHANGED <<mode, validation>>
    /\ UNCHANGED runtimeVars
    /\ UNCHANGED <<spc, msg, sresp, plan, failed, inQueue, acked, deliveries,
                   rt, attempts, hop>>
    /\ UNCHANGED timedOut
    /\ UNCHANGED lifeVars

\* the transport refuses a publish: the input is left for redelivery
PublishRefused ==
    /\ spc = "publish"
    /\ Len(pubs) < Len(plan)
    /\ failed' = TRUE
    /\ spc' = "requeued"
    /\ UNCHANGED <<mode, validation>>
    /\ UNCHANGED runtimeVars
    /\ UNCHANGED <<msg, sresp, plan, pubs, inQueue, acked, deliveries,
                   rt, attempts, hop>>
    /\ UNCHANGED timedOut
    /\ UNCHANGED lifeVars

Ack ==
    /\ spc = "publish"
    /\ AckReady(pubs, plan)
    /\ acked' = TRUE
    /\ inQueue' = FALSE
    /\ spc' = "done"
    /\ UNCHANGED <<mode, validation>>
    /\ UNCHANGED runtimeVars
    /\ UNCHANGED <<msg, sresp, plan, pubs, failed, deliveries, rt, attempts, hop>>
    /\ UNCHANGED timedOut
    /\ UNCHANGED lifeVars

\* the transport hands the unacknowledged message to the sidecar again
Redeliver ==
    /\ spc = "requeued"
    /\ inQueue
    /\ deliveries < MaxDeliveries
    /\ deliveries' = deliveries + 1
    /\ spc' = "received"
    /\ sresp' = NoResponse
    /\ plan' = <<>>
    /\ pubs' = <<>>
    /\ failed' = FALSE
    /\ req' = NoRequest
    /\ hinfo' = NotCalled
    /\ resp' = NoResponse
    /\ attempts' = 0
    /\ hop' = "none"
    /\ UNCHANGED <<mode, validation, rpc, openConns, sent, errAnswered>>
    /\ UNCHANGED <<msg, inQueue, acked, rt>>
    /\ UNCHANGED timedOut
    /\ UNCHANGED lifeVars

\* the message is settled; the sidecar waits for the next one
BackToIdle ==
    /\ spc = "done"
    /\ spc' = "idle"
    /\ msg' = NoEnv
    /\ sresp' = NoResponse
    /\ plan' = <<>>
    /\ pubs' = <<>>
    /\ failed' = FALSE
    /\ inQueue' = FALSE
    /\ acked' = FALSE
    /\ deliveries' = 0
    /\ req' = NoRequest
    /\ hinfo' = NotCalled
    /\ resp' = NoResponse
    /\ attempts' = 0
    /\ hop' = "none"
    /\ UNCHANGED <<mode, validation, rpc, openConns, sent, errAnswered>>
    /\ UNCHANGED rt

NextMessage == BackToIdle /\ UNCHANGED timedOut /\ UNCHANGED lifeVars

SidecarNext ==
    \/ Deliver
    \/ RouteUndecodable
    \/ Forward
    \/ ConnectFails
    \/ BudgetExhausted
    \/ DeadlineExpires
    \/ AbandonedCallReturns
    \/ RuntimeStops
    \/ RuntimeStarts
    \/ ClassifyResponse
    \/ PublishAccepted
    \/ PublishRefused
    \/ Ack
    \/ Redeliver
    \/ NextMessage

SidecarSpec == Init /\ [][SidecarNext]_vars

\* ===================================================== claims: the runtime
Answered == rpc \in {"send", "close"}

\* the request carried an envelope whose route has a list of actors and an
\* integer cursor k >= 0
InputRouted ==
    /\ req.read = "ok"
    /\ req.body = "object"
    /\ req.env.route.kind = "dict"
    /\ req.env.route.actorsKind = "list"
    /\ req.env.route.currentKind = "int"
    /\ req.env.route.current >= 0

\* positions 0..k of the input route, as far as they exist, are the same in out
KeepsProcessedPrefix(in, out) ==
    LET processed == SubSeq(in.actors, 1, Min(in.current + 1, Len(in.actors)))
    IN  /\ out.kind = "dict"
        /\ out.route.kind = "dict"
        /\ out.route.actorsKind = "list"
        /\ Len(out.route.actors) >= Len(processed)
        /\ SubSeq(out.route.actors, 1, Len(processed)) = processed

\* C1: every output envelope of a non-error response keeps the actors at
\* positions 0..k of the input route, k being the input's route.current.
C1_ProcessedPrefixKept ==
    (Answered /\ resp.kind = "ok" /\ InputRouted) =>
        \A i \in 1..Len(resp.outs) : KeepsProcessedPrefix(req.env.route, resp.outs[i])

\* the cursor of the input route; an absent cursor counts as 0 and true /
\* false as 1 / 0
InputCurrent == RouteCurrent(req.env.route)

\* C2: in payload mode every output envelope has the input's actors and the
\* input's route.current plus one.
C2_PayloadRouteAdvanced ==
    (Answered /\ mode = "payload" /\ resp.kind = "ok") =>
        \A i \in 1..Len(resp.outs) :
            /\ resp.outs[i].route.actorsKind = req.env.route.actorsKind
            /\ resp.outs[i].route.actors = req.env.route.actors
            /\ resp.outs[i].route.currentKind = "int"
            /\ resp.outs[i].route.current = InputCurrent + 1

C2_Witness ==
    /\ Answered /\ mode = "payload" /\ resp.kind = "ok"
    /\ Len(resp.outs) = 2
    /\ req.env.route.actors = <<"a", "b">>
    /\ req.env.route.current = 1
    /\ resp.outs[2].route.current = 2

\* C6: every accepted request whose peer is still there gets a response
\* written, whatever went wrong while it was handled.
C6_EveryRequestAnswered ==
    (rpc = "close" /\ sent # "brokenpipe") => sent = "written"

\* C7: whatever the outcome of a request, the runtime is back at accept()
\* once the connection is closed.
C7_LoopContinues == [][rpc = "close" => rpc' = "accept"]_vars

\* a request is served normally after an error response has been written
C7_Witness ==
    /\ errAnswered
    /\ rpc = "close"
    /\ sent = "written"
    /\ resp.kind = "ok"
    /\ Len(resp.outs) >= 1

\* C8: at most one connection is accepted and not yet closed; the runtime is
\* at accept() only when the previous connection is closed and nothing of the
\* previous request is pending.
C8_OneRequestInFlight ==
    /\ openConns \in {0, 1}
    /\ (rpc = "accept" => (openConns = 0 /\ resp = NoResponse /\ sent = "pending"))
    /\ (rpc \in {"handle", "send", "close"} => openConns = 1)
    /\ (hinfo.called => (openConns = 1 /\ rpc \in {"send", "close"}))

\* a second connection is being served after an earlier one was closed
C8_Witness == errAnswered /\ hinfo.called /\ openConns = 1

\* C9: every response written is an array of objects: output envelopes, or
\* one error object.
C9_ArrayOfObjects ==
    sent = "written" =>
        \/ resp.kind = "error"
        \/ (resp.kind = "ok" /\ \A i \in 1..Len(resp.outs) : resp.outs[i].kind = "dict")

\* an envelope with a route object and an actors list that breaks an invariant
ViolatesInvariant(e) ==
    /\ e.route.kind = "dict"
    /\ e.route.actorsKind = "list"
    /\ \/ Len(e.route.actors) = 0
       \/ e.route.currentKind \in {"bool", "str"}
       \/ (e.route.currentKind = "int"
              /\ (e.route.current < 0 \/ e.route.current > Len(e.route.actors)))
       \/ e.headers = "nondict"

\* C10: with validation on, an envelope that breaks an invariant is answered
\* with msg_parsing_error and the handler is not invoked.
C10_InvalidInputRejected ==
    (Answered /\ validation /\ req.read = "ok" /\ req.body = "object"
        /\ ViolatesInvariant(req.env)) =>
            (resp.kind = "error" /\ resp.code = "msg_parsing_error" /\ ~hinfo.called)

\* an output envelope that has the shape of an envelope and breaks one of the
\* invariants, for the input envelope in whose route has an integer cursor k
OutputViolates(in, o) ==
    /\ o.kind = "dict"
    /\ o.payload # "absent"
    /\ o.route.kind = "dict"
    /\ o.route.actorsKind = "list"
    /\ o.route.currentKind = "int"
    /\ \/ Len(o.route.actors) = 0
       \/ o.route.current < 0
       \/ o.route.current > Len(o.route.actors)
       \/ o.headers = "nondict"
       \/ ~KeepsProcessedPrefix(in.route, o)

\* C11: when the handler raises, or in envelope mode with validation on one
\* of the envelopes it returns breaks an invariant, the response is a single
\* processing_error and carries none of the handler's outputs.
C11_BadOutputRejectsAll ==
    (Answered /\ hinfo.called
        /\ \/ hinfo.ret = "raise"
           \/ (mode = "envelope" /\ validation /\ InputRouted
                  /\ \E i \in 1..Len(hinfo.outs) : OutputViolates(req.env, hinfo.outs[i]))) =>
            (resp.kind = "error" /\ resp.code = "processing_error" /\ resp.outs = <<>>)

\* the framed body was read in full and is not the encoding of an envelope:
\* not JSON, not UTF-8, zero bytes long, or a JSON value without the payload
\* or the route field
NotAnEnvelopeEncoding ==
    /\ req.read = "ok"
    /\ \/ req.body \in {"badjson", "badutf8", "empty", "scalar", "container"}
       \/ (req.body = "object"
              /\ (req.env.payload = "absent" \/ req.env.route.kind = "absent"))

\* C12: a framed body that is not a valid envelope encoding is answered with
\* msg_parsing_error.
C12_BadEncodingIsParsingError ==
    (Answered /\ NotAnEnvelopeEncoding) =>
        (resp.kind = "error" /\ resp.code = "msg_parsing_error")

\* C13: when the connection is closed, or the read fails, before the length
\* prefix and the whole announced body have arrived, the response is
\* connection_error and the handler is not invoked.
C13_ShortReadIsConnectionError ==
    (Answered /\ req.read \in {"closed", "oserror"}) =>
        (resp.kind = "error" /\ resp.code = "connection_error" /\ ~hinfo.called)

\* the peer closed early and the connection_error response met a broken pipe
C13_Witness ==
    /\ rpc = "close"
    /\ req.read = "closed"
    /\ resp.code = "connection_error"
    /\ sent = "brokenpipe"

\* the i-th output of the response is made from the i-th returned item: its
\* payload in payload mode, the envelope itself (an absent cursor possibly
\* filled in by validation) in envelope mode
MadeFrom(out, item) ==
    /\ out.payload = item.payload
    /\ (mode = "envelope" =>
            /\ out.kind = item.kind
            /\ out.route \in {item.route, DefaultCurrent(item.route)}
            /\ out.headers = item.headers
            /\ out.id = item.id)

\* C14: in a non-error response None gives no output, a list of n items gives
\* n outputs in the order of the list, and any other value gives one output.
C14_ReturnNormalized ==
    (Answered /\ hinfo.called /\ resp.kind = "ok") =>
        /\ (hinfo.ret = "none" => Len(resp.outs) = 0)
        /\ (hinfo.ret = "single" => Len(resp.outs) = 1)
        /\ (hinfo.ret = "list" => Len(resp.outs) = hinfo.n)
        /\ \A i \in 1..Len(resp.outs) : MadeFrom(resp.outs[i], hinfo.outs[i])

\* a list of two different payloads comes back as two outputs in that order
C14_Witness ==
    /\ Answered /\ resp.kind = "ok"
    /\ hinfo.ret = "list"
    /\ Len(resp.outs) = 2
    /\ resp.outs[1].payload = "q"
    /\ resp.outs[2].payload = "r"

\* the handler returned envelopes that are all well-formed and serializable
WellFormedReturn ==
    /\ hinfo.called
    /\ hinfo.n >= 1
    /\ \A i \in 1..hinfo.n :
            Decodable(hinfo.outs[i]) /\ hinfo.outs[i].payload # "unser"

\* an output whose cursor is past the end of its actors list
Overrun(o) == Decodable(o) /\ o.route.current > Len(o.route.actors)

\* the output is in the response as the handler returned it, and its route
\* points to happy-end
PassedToHappyEnd(i) ==
    /\ resp.kind = "ok"
    /\ i <= Len(resp.outs)
    /\ resp.outs[i] = hinfo.outs[i]
    /\ NextQueue(resp.outs[i].route) = HappyEnd

\* C15: a handler output whose route.current is greater than len(actors) is
\* accepted, not treated as an error, and goes to happy-end with its payload.
C15_OverrunToHappyEnd ==
    (Answered /\ WellFormedReturn) =>
        \A i \in 1..hinfo.n : Overrun(hinfo.outs[i]) => PassedToHappyEnd(i)

\* C15 as amended: with validation off the overrunning output is returned
\* unchanged and its route points to happy-end; with validation on the
\* response is processing_error and carries no output.
C15_OverrunByValidation ==
    (Answered /\ WellFormedReturn
        /\ \E i \in 1..hinfo.n : Overrun(hinfo.outs[i])) =>
            IF validation
            THEN resp = ErrorResponse("processing_error", TRUE)
            ELSE \A i \in 1..hinfo.n : Overrun(hinfo.outs[i]) => PassedToHappyEnd(i)

\* validation off: the response with the overrunning output has been written
C15_Witness ==
    /\ ~validation
    /\ rpc = "close"
    /\ sent = "written"
    /\ hinfo.n = 1
    /\ Overrun(resp.outs[1])
    /\ resp.outs[1].payload = "q"
    /\ NextQueue(resp.outs[1].route) = HappyEnd

\* ===================================================== claims: the sidecar
\* C3: the input is acknowledged only when every publish the answer implies
\* has been accepted, and a refused publish leaves it unacknowledged and
\* owned by the transport.
C3_AckAfterPublish ==
    /\ acked => (plan # <<>> /\ pubs = plan /\ ~failed /\ ~inQueue)
    /\ failed => (~acked /\ inQueue)

\* acknowledged on the second delivery, after a refused publish on the first
C3_Witness == acked /\ deliveries = 2 /\ Len(pubs) = 2

HandlerReturnedNothing == hinfo.called /\ hinfo.ret \in {"none", "list"} /\ hinfo.n = 0

\* C4: when the handler returns nothing, the only publish of the delivery is
\* the unchanged input envelope on happy-end, and it is made before the ack.
C4_EmptyOutputToHappyEnd ==
    HandlerReturnedNothing =>
        /\ Len(pubs) <= 1
        /\ \A i \in 1..Len(pubs) : pubs[i] = Publication(HappyEnd, msg, "none")
        /\ (acked => Len(pubs) = 1)

C4_Witness ==
    /\ HandlerReturnedNothing
    /\ acked
    /\ Len(msg.route.actors) = 2
    /\ msg.route.current = 0
    /\ pubs = <<Publication(HappyEnd, msg, "none")>>

\* the queue the claim assigns to an output
ImpliedQueue(o) ==
    IF o.route.current >= Len(o.route.actors)
    THEN HappyEnd
    ELSE o.route.actors[o.route.current + 1]

Routable(o) == Decodable(o) /\ o.route.current >= 0

\* C5: N >= 1 outputs in a non-error answer give exactly N publishes, the
\* i-th to the queue the i-th output's route implies.
C5_FanOutCardinality ==
    (hinfo.called /\ hinfo.n >= 1 /\ sresp.kind = "ok"
        /\ \A i \in 1..Len(sresp.outs) : Routable(sresp.outs[i])) =>
            /\ Len(pubs) <= hinfo.n
            /\ (acked => Len(pubs) = hinfo.n)
            /\ \A i \in 1..Len(pubs) :
                    /\ i <= Len(sresp.outs)
                    /\ pubs[i].queue = ImpliedQueue(sresp.outs[i])
                    /\ pubs[i].error = "none"

C5_Witness ==
    /\ acked
    /\ hinfo.n = 2
    /\ Len(pubs) = 2
    /\ pubs[1].queue = "b"
    /\ pubs[2].queue = HappyEnd

\* an envelope whose cursor equals the length of its actors list
AtEndOfRoute(e) == Decodable(e) /\ e.route.current = Len(e.route.actors)

\* the input is at the last actor of its route
AtLastActor(e) == e.route.current + 1 = Len(e.route.actors)

\* C16: an envelope whose route.current equals len(actors) is published to
\* happy-end and to no actor queue; what a payload handler returns at the last
\* actor of a route is such an envelope.
C16_EndOfRouteToHappyEnd ==
    /\ \A i \in 1..Len(pubs) :
            (pubs[i].error = "none" /\ AtEndOfRoute(pubs[i].env)) =>
                (pubs[i].queue = HappyEnd /\ pubs[i].queue \notin Actors)
    /\ (mode = "payload" /\ hinfo.called /\ sresp.kind = "ok" /\ AtLastActor(msg)) =>
            \A i \in 1..Len(pubs) :
                /\ pubs[i].queue = HappyEnd
                /\ (hinfo.n >= 1 => AtEndOfRoute(pubs[i].env))

\* the last actor of a two-actor route answered and the output is on happy-end
C16_Witness ==
    /\ acked
    /\ mode = "payload"
    /\ msg.route.actors = <<"a", "b">>
    /\ msg.route.current = 1
    /\ hinfo.n = 1
    /\ Len(pubs) = 1
    /\ pubs[1].queue = HappyEnd
    /\ pubs[1].env.route.current = 2

Planned == spc \in {"publish", "requeued", "done"}

\* C18: when the deadline of a hop passes with no framed response, the read
\* is abandoned and the only publish of the delivery is the input envelope on
\* error-end, marked timeout_error.
C18_DeadlineToErrorEnd ==
    hop = "deadline" =>
        /\ resp = NoResponse
        /\ (Planned => plan = <<Publication(ErrorEnd, msg, "timeout_error")>>)
        /\ Len(pubs) <= 1
        /\ \A i \in 1..Len(pubs) : pubs[i] = Publication(ErrorEnd, msg, "timeout_error")
        /\ (acked => Len(pubs) = 1)

\* the handler was still running when the deadline passed; the input went to
\* error-end and was acknowledged
C18_Witness ==
    /\ hop = "deadline"
    /\ hinfo = StillRunning
    /\ acked
    /\ pubs = <<Publication(ErrorEnd, msg, "timeout_error")>>

\* an answer is read after at least one failed attempt of the same hop
AnsweredAfterRetry == spc = "received" /\ attempts >= 1 /\ hop' = "answered"

\* C20: the failed attempts of a hop never exceed the budget; when the budget
\* is used up the only publish is the input envelope on error-end as a
\* processing error; an answer obtained within the budget after failed
\* attempts is the runtime's answer to this envelope and is classified like
\* any other.
C20_ReconnectBounded ==
    /\ [](attempts <= MaxAttempts)
    /\ [](hop = "exhausted" =>
            /\ attempts = MaxAttempts
            /\ (Planned => plan = <<Publication(ErrorEnd, msg, "processing_error")>>)
            /\ \A i \in 1..Len(pubs) :
                    pubs[i] = Publication(ErrorEnd, msg, "processing_error")
            /\ (acked => Len(pubs) = 1))
    /\ [](hop = "answered" => (Planned => plan = Classify(msg, resp)))
    /\ [][AnsweredAfterRetry =>
            /\ attempts < MaxAttempts
            /\ rt = "up"
            /\ req' = Frame(msg)
            /\ resp'.kind \in {"ok", "error"}
            /\ sresp' = resp']_vars

\* the runtime stayed away for the whole budget: the input is on error-end
C20_Witness ==
    /\ hop = "exhausted"
    /\ attempts = MaxAttempts
    /\ rt = "down"
    /\ acked
    /\ pubs = <<Publication(ErrorEnd, msg, "processing_error")>>

\* ---- recovery after a timed-out hop ----
\* One actor served by timeout_handler, which sleeps for the time its payload
\* asks for and then hands the payload back.  A slow payload asks for longer
\* than the per-hop deadline.  The runtime serves one connection at a time, so
\* while an abandoned call is still asleep nobody answers the next envelope.

Slow(e) == e.payload = "slow"

TimeoutActorInputs ==
    {Env(p, e.route, e.headers, e.id) :
        p \in {"p", "slow"}, e \in {d \in DeliverableInputs : AtLastActor(d)}}

timeout_handler(e) == Return("single", <<PayloadItem(e.payload)>>, FALSE)

SendToTimeoutActor ==
    /\ spc = "idle"
    /\ \E m \in TimeoutActorInputs : Receive(m)

TimeoutHandlerAnswers ==
    /\ ~Slow(msg)
    /\ Exchange(timeout_handler(HandlerInput(validation, Frame(msg))))
    /\ UNCHANGED timedOut
    /\ UNCHANGED lifeVars

HopTimesOut ==
    /\ Slow(msg) \/ rt = "busy"
    /\ DeadlineExpires

NextAfterHop ==
    /\ BackToIdle
    /\ timedOut' = (timedOut \/ hop = "deadline")
    /\ UNCHANGED lifeVars

RecoveryInit == Init /\ mode = "payload"

RecoveryNext ==
    \/ SendToTimeoutActor
    \/ TimeoutHandlerAnswers
    \/ HopTimesOut
    \/ AbandonedCallReturns
    \/ ClassifyResponse
    \/ PublishAccepted
    \/ Ack
    \/ NextAfterHop

\* The sidecar takes its next step when it has one; the sleep of an abandoned
\* call ends whatever the sidecar is doing.
RecoveryFairness ==
    /\ WF_vars(TimeoutHandlerAnswers)
    /\ WF_vars(ClassifyResponse)
    /\ WF_vars(PublishAccepted)
    /\ WF_vars(Ack)
    /\ WF_vars(NextAfterHop)
    /\ SF_vars(AbandonedCallReturns)

RecoverySpec == RecoveryInit /\ [][RecoveryNext]_vars /\ RecoveryFairness

ReachedHappyEnd ==
    /\ acked
    /\ hop = "answered"
    /\ Len(pubs) = 1
    /\ pubs[1].queue = HappyEnd
    /\ pubs[1].error = "none"
    /\ pubs[1].env.payload = msg.payload

CrashInputs == {m \in TimeoutActorInputs : ~Slow(m)}

SendBeforeCrash ==
    /\ spc = "idle"
    /\ \E m \in CrashInputs : Receive(m)

CrashNext ==
    \/ SendBeforeCrash
    \/ RuntimeCrashesMidHop
    \/ RuntimeStarts
    \/ ConnectFails
    \/ BudgetExhausted
    \/ TimeoutHandlerAnswers
    \/ ClassifyResponse
    \/ PublishAccepted
    \/ Ack
    \/ NextMessage

CrashSpec == RecoveryInit /\ [][CrashNext]_vars

ToErrorEndAsProcessingError ==
    /\ sresp.kind # "ok"
    /\ (Planned => plan = <<Publication(ErrorEnd, msg, "processing_error")>>)
    /\ \A i \in 1..Len(pubs) : pubs[i] = Publication(ErrorEnd, msg, "processing_error")

Undecoded == spc # "idle" /\ ~Decodable(msg)

\* C22: a consumed message whose body is no envelope is published to error-end
\* with msg_parsing_error before it is acknowledged, is never acknowledged
\* without that publish, and is never handed to the runtime.
C22_MalformedToErrorEnd ==
    Undecoded =>
        /\ req = NoRequest
        /\ ~hinfo.called
        /\ (Planned => plan = <<Publication(ErrorEnd, msg, "msg_parsing_error")>>)
        /\ \A i \in 1..Len(pubs) : pubs[i] = Publication(ErrorEnd, msg, "msg_parsing_error")
        /\ (acked => Len(pubs) = 1)

C22_Witness ==
    /\ msg = Malformed
    /\ acked
    /\ deliveries = 2
    /\ pubs = <<Publication(ErrorEnd, Malformed, "msg_parsing_error")>>

\* --------------------------------------------- startup: handle_requests
\* What ASYA_HANDLER may name.  The first group never yields a handler.
BadDescriptors ==
    {"empty", "nodot", "nomodule", "noattr", "notcallable", "toodeep",
     "notclass", "ctor_nodefault", "ctor_raises", "nomethod", "method_notcallable"}

EndDescriptors == {"happy_end", "error_end"}

Descriptors == BadDescriptors \cup EndDescriptors \cup {"function", "class_method"}

\* handlers/end_handlers.py checks the configuration when it is imported
EndHandlersImport_ModeOnly(md, val) == IF md = "envelope" THEN "ok" ELSE "RuntimeError"

EndHandlersImport(md, val) ==
    IF md = "envelope" /\ ~val THEN "ok" ELSE "RuntimeError"

\* handler_class() is reached only by a class whose __init__ parameters all
\* have defaults; the instance exists from then on, whatever follows
InstantiateClassHandler(d) ==
    IF d \in {"class_method", "nomethod", "method_notcallable"} THEN 1 ELSE 0

\* _load_function: "function" or "method" when it returns a handler, "exit"
\* for sys.exit(1), "raise" for an exception that leaves handle_requests
LoadFunction_AnyAttribute(d, md, val) ==
    CASE d \in {"empty", "nodot", "nomodule", "toodeep"} -> "exit"
      [] d \in EndDescriptors ->
            IF EndHandlersImport(md, val) = "ok" THEN "function" ELSE "raise"
      [] d \in {"function", "noattr", "notcallable"} -> "function"
      [] OTHER -> "method"

LoadFunction(d, md, val) ==
    CASE d \in {"empty", "nodot", "nomodule"} -> "exit"
      [] d \in EndDescriptors ->
            IF EndHandlersImport(md, val) = "ok" THEN "function" ELSE "raise"
      [] d \in {"noattr", "notcallable", "toodeep"} -> "exit"
      [] d = "function" -> "function"
      [] d \in {"notclass", "ctor_nodefault", "ctor_raises"} -> "exit"
      [] d \in {"nomethod", "method_notcallable"} -> "exit"
      [] OTHER -> "method"

\* func = _load_function()
LoadHandler ==
    /\ boot = "start"
    /\ boot' = IF LoadFunction(descriptor, mode, validation) \in {"function", "method"}
               THEN "loaded" ELSE "exited"
    /\ instances' = instances + InstantiateClassHandler(descriptor)
    /\ UNCHANGED <<mode, validation, descriptor, sock, memo, seen, bucket, wire, proc, progress>>
    /\ UNCHANGED runtimeVars
    /\ UNCHANGED sidecarVars

\* sock = _setup_socket(SOCKET_PATH)
SetupSocket ==
    /\ boot = "loaded"
    /\ sock' = "listening"
    /\ proc' = [proc EXCEPT !.sockfile = TRUE]
    /\ boot' = "listening"
    /\ UNCHANGED <<mode, validation, descriptor, instances, memo, seen, bucket, wire, progress>>
    /\ UNCHANGED runtimeVars
    /\ UNCHANGED sidecarVars

\* open(ready_file, "w"): the file exists from here on, with nothing in it;
\* a failure is logged and startup goes on without a marker
OpenReadyFile ==
    /\ boot = "listening"
    /\ \E ok \in BOOLEAN :
        /\ boot' = IF ok THEN "opening" ELSE "marked"
        /\ proc' = IF ok THEN [proc EXCEPT !.marker = "empty"] ELSE proc
    /\ UNCHANGED <<mode, validation, descriptor, sock, instances, memo, seen, bucket, wire, progress>>
    /\ UNCHANGED runtimeVars
    /\ UNCHANGED sidecarVars

\* f.write("ready") and the close at the end of the with block
WriteReadyFile ==
    /\ boot = "opening"
    /\ boot' = "marked"
    /\ proc' = [proc EXCEPT !.marker = "complete"]
    /\ UNCHANGED <<mode, validation, descriptor, sock, instances, memo, seen, bucket, wire, progress>>
    /\ UNCHANGED runtimeVars
    /\ UNCHANGED sidecarVars

\* signal.signal(SIGTERM, _cleanup), signal.signal(SIGINT, _cleanup), and
\* the loop is entered
EnterLoop ==
    /\ boot = "marked"
    /\ boot' = "ready"
    /\ proc' = [proc EXCEPT !.handlers = TRUE]
    /\ UNCHANGED <<mode, validation, descriptor, sock, instances, memo, seen, bucket, wire, progress>>
    /\ UNCHANGED runtimeVars
    /\ UNCHANGED sidecarVars

\* a request handled by a fresh instance of the class
CallHandler_FreshInstance ==
    /\ boot = "ready"
    /\ descriptor \in {"function", "class_method"}
    /\ memo < MaxCalls
    /\ instances' = instances + 1
    /\ seen' = 0
    /\ memo' = 1
    /\ UNCHANGED <<mode, validation, descriptor, sock, boot, bucket, wire, proc, progress>>
    /\ UNCHANGED runtimeVars
    /\ UNCHANGED sidecarVars

\* user_func(...) inside _handle_request: func is the object loaded at
\* startup, so the call finds the state the previous call left
CallHandler ==
    /\ boot = "ready"
    /\ descriptor \in {"function", "class_method"}
    /\ memo < MaxCalls
    /\ seen' = memo
    /\ memo' = memo + 1
    /\ UNCHANGED <<mode, validation, descriptor, sock, boot, instances, bucket, wire, proc, progress>>
    /\ UNCHANGED runtimeVars
    /\ UNCHANGED sidecarVars

StartInit ==
    /\ boot = "start"
    /\ descriptor \in Descriptors
    /\ sock = "none"
    /\ instances = 0
    /\ memo = 0
    /\ seen = 0
    /\ bucket = {}
    /\ wire = NoFrame(DefaultChunkSize)
    /\ proc = Fresh
    /\ progress = NoProgress
    /\ mode \in VALID_ASYA_HANDLER_MODES
    /\ validation \in BOOLEAN
    /\ rpc = "accept"
    /\ openConns = 0
    /\ req = NoRequest
    /\ hinfo = NotCalled
    /\ resp = NoResponse
    /\ sent = "pending"
    /\ errAnswered = FALSE
    /\ SidecarIdle

StartNext ==
    \/ LoadHandler
    \/ SetupSocket
    \/ OpenReadyFile
    \/ WriteReadyFile
    \/ EnterLoop
    \/ CallHandler

StartSpec == StartInit /\ [][StartNext]_vars

\* C28: a class handler is instantiated once, at startup, and every request
\* is served by that instance: a call finds the state the call before it wrote.
C28_OneInstanceServesAll ==
    descriptor = "class_method" =>
        /\ instances = (IF boot = "start" THEN 0 ELSE 1)
        /\ (memo >= 1 => seen = memo - 1)
        /\ (boot # "ready" => memo = 0)

C28_Witness ==
    /\ descriptor = "class_method"
    /\ instances = 1
    /\ memo = MaxCalls
    /\ seen = MaxCalls - 1

\* C29: with a descriptor that is empty, misses the dotted pattern, resolves to
\* no callable or names a class whose constructor has a parameter without a
\* default, startup ends before the socket is bound and no request is served.
C29_BadDescriptorNeverServes ==
    descriptor \in BadDescriptors =>
        /\ boot \in {"start", "exited"}
        /\ sock = "none"
        /\ memo = 0

C29_Witness ==
    /\ descriptor = "ctor_nodefault"
    /\ boot = "exited"
    /\ sock = "none"
    /\ instances = 0

\* ------------------------------------------------------------ end actors
\* happy-end and error-end: a runtime whose handler comes from
\* handlers/end_handlers.py, and the sidecar in front of it.

\* the JSON object {}
EmptyObject == PayloadItem("absent")

\* an end handler that returns None
end_handler_ReturnsNone(e) ==
    IF e.id = "absent" THEN Raises ELSE Return("none", <<>>, FALSE)

\* happy_end_handler / error_end_handler: ValueError without an id, else {}
end_handler(e) ==
    IF e.id = "absent" THEN Raises ELSE Return("single", <<EmptyObject>>, FALSE)

\* a key that changes from one delivery to the next
KeyOf_PerDelivery(e) == <<e.id, deliveries>>

\* the key is derived from the envelope id alone
KeyOf(e) == <<e.id, 0>>

\* put_object: an object under the same key is replaced
Persist(b, e) ==
    {o \in b : o.key # KeyOf(e)} \cup {[key |-> KeyOf(e), body |-> e]}

EndInputs ==
    {Env("p", IntRoute(as, Len(as)), hd, i) :
        as \in {<<"a">>, <<"a", "b">>}, hd \in {"absent", "h1"},
        i \in {"E1", "E2", "absent"}}

ArriveAtEnd ==
    /\ spc = "idle"
    /\ \E m \in EndInputs : Receive(m)

\* the end handler runs inside the runtime's exchange with the sidecar
EndExchange ==
    /\ boot = "ready"
    /\ Exchange(end_handler(msg))
    /\ bucket' = IF msg.id = "absent" THEN bucket ELSE Persist(bucket, msg)
    /\ UNCHANGED <<boot, descriptor, sock, instances, memo, seen, wire, proc, progress>>
    /\ UNCHANGED timedOut

\* the generic classification, which would route the answer onwards
EndPlan_Routed(m, r) == Classify(m, r)

\* at an end actor the answer is not routed
EndPlan(m, r) == <<>>

FinishAtEnd ==
    /\ spc = "classify"
    /\ sresp.kind = "ok"
    /\ plan' = EndPlan(msg, sresp)
    /\ spc' = "publish"
    /\ UNCHANGED <<mode, validation>>
    /\ UNCHANGED runtimeVars
    /\ UNCHANGED <<msg, sresp, pubs, failed, inQueue, acked, deliveries,
                   rt, attempts, hop>>
    /\ UNCHANGED timedOut
    /\ UNCHANGED lifeVars

\* at-least-once transport: the message comes a second time
DuplicateArrives ==
    /\ spc = "done"
    /\ deliveries < MaxDeliveries
    /\ deliveries' = deliveries + 1
    /\ spc' = "received"
    /\ inQueue' = TRUE
    /\ acked' = FALSE
    /\ sresp' = NoResponse
    /\ plan' = <<>>
    /\ pubs' = <<>>
    /\ req' = NoRequest
    /\ hinfo' = NotCalled
    /\ resp' = NoResponse
    /\ hop' = "none"
    /\ UNCHANGED <<mode, validation, rpc, openConns, sent, errAnswered>>
    /\ UNCHANGED <<msg, failed, rt, attempts>>
    /\ UNCHANGED timedOut
    /\ UNCHANGED lifeVars

EndInit ==
    /\ StartInit
    /\ descriptor \in EndDescriptors

EndNext ==
    \/ LoadHandler
    \/ SetupSocket
    \/ OpenReadyFile
    \/ WriteReadyFile
    \/ EnterLoop
    \/ ArriveAtEnd
    \/ EndExchange
    \/ FinishAtEnd
    \/ Ack
    \/ DuplicateArrives
    \/ NextMessage

EndSpec == EndInit /\ [][EndNext]_vars

HandledAtEnd == hop = "answered" /\ msg.id # "absent"

C24_EndReturnsEmptySequence ==
    (hop = "answered") => (resp.kind = "ok" /\ Len(resp.outs) = 0)

\* C24 (amended): for an envelope with an id the end handler returns the empty
\* object and the runtime answers with the array holding that one object,
\* which has neither route nor payload; without an id it answers
\* processing_error.
C24_EndReturnsEmptyObject ==
    (hop = "answered") =>
        /\ mode = "envelope"
        /\ ~validation
        /\ resp = IF msg.id = "absent" THEN ErrorResponse("processing_error", TRUE)
                  ELSE OkResponse(<<EmptyObject>>)
        /\ sresp = resp

C24_Witness ==
    /\ hop = "answered"
    /\ msg.id = "E1"
    /\ resp.kind = "ok"
    /\ Len(resp.outs) = 1
    /\ resp.outs[1] = EmptyObject
    /\ ~Decodable(resp.outs[1])

\* find_envelope_in_s3: the objects whose key contains the id
ObjectsFor(i) == {o \in bucket : o.key[1] = i}

\* C25: however often an envelope is delivered to an end actor, the bucket
\* holds exactly one object for its id, and its content is the envelope.
C25_OneObjectPerId ==
    /\ \A i \in {"E1", "E2"} : Cardinality(ObjectsFor(i)) <= 1
    /\ HandledAtEnd => ObjectsFor(msg.id) = {[key |-> KeyOf(msg), body |-> msg]}

C25_Witness ==
    /\ HandledAtEnd
    /\ deliveries = 2
    /\ acked
    /\ ObjectsFor(msg.id) = {[key |-> KeyOf(msg), body |-> msg]}

\* C26: an end actor starts only in envelope mode with validation off; in any
\* other configuration startup fails and no envelope is ever processed.
C26_EndActorConfiguration ==
    /\ boot \in {"loaded", "listening", "opening", "marked", "ready"} =>
            (mode = "envelope" /\ ~validation)
    /\ (mode # "envelope" \/ validation) =>
            /\ boot \in {"start", "exited"}
            /\ sock = "none"
            /\ hop = "none"
            /\ ~hinfo.called
            /\ bucket = {}
            /\ ~acked

C26_Witness ==
    /\ mode = "envelope"
    /\ validation
    /\ boot = "exited"
    /\ spc = "received"

\* ------------------------------------------------ payload mode: the frame
\* C30: in payload mode every output envelope is an object made of the
\* returned payload, a route, and the input's headers exactly when the input
\* had headers; it carries no other field of the input (no id).
C30_PayloadOutputFields ==
    (Answered /\ mode = "payload" /\ resp.kind = "ok") =>
        /\ Len(resp.outs) = hinfo.n
        /\ \A i \in 1..Len(resp.outs) :
                /\ resp.outs[i].kind = "dict"
                /\ resp.outs[i].payload = hinfo.outs[i].payload
                /\ resp.outs[i].route.kind = "dict"
                /\ resp.outs[i].headers = req.env.headers
                /\ resp.outs[i].id = "absent"

C30_Witness ==
    /\ Answered /\ mode = "payload" /\ resp.kind = "ok"
    /\ req.env.headers = "h1"
    /\ req.env.id = "E1"
    /\ Len(resp.outs) = 2
    /\ resp.outs[2].headers = "h1"
    /\ resp.outs[2].id = "absent"

\* ------------------------------------------------- the length-prefixed frame
\* A byte string is kept as its runs: <<[b |-> 120, n |-> 3]>> is b"xxx".  No
\* run is empty and neighbouring runs differ, so equal strings are equal values.
MaxBody == 3
MaxShort == 3
MaxReads == 1600

Run(b, n) == [b |-> b, n |-> n]

RECURSIVE RLen(_)
\* len(s)
RLen(s) == IF s = <<>> THEN 0 ELSE s[1].n + RLen(Tail(s))

\* a + b
RCat(a, b) ==
    IF a = <<>> THEN b
    ELSE IF b = <<>> THEN a
    ELSE IF a[Len(a)].b = b[1].b
    THEN SubSeq(a, 1, Len(a) - 1) \o <<Run(b[1].b, a[Len(a)].n + b[1].n)>> \o Tail(b)
    ELSE a \o b

RECURSIVE RTake(_, _)
\* s[:k]
RTake(s, k) ==
    IF k <= 0 \/ s = <<>> THEN <<>>
    ELSE IF s[1].n >= k THEN <<Run(s[1].b, k)>>
    ELSE <<s[1]>> \o RTake(Tail(s), k - s[1].n)

RECURSIVE RDrop(_, _)
\* s[k:]
RDrop(s, k) ==
    IF k <= 0 \/ s = <<>> THEN s
    ELSE IF s[1].n > k THEN <<Run(s[1].b, s[1].n - k)>> \o Tail(s)
    ELSE RDrop(Tail(s), k - s[1].n)

RECURSIVE RByte(_, _)
\* s[i - 1], for 1 <= i <= len(s)
RByte(s, i) == IF i <= s[1].n THEN s[1].b ELSE RByte(Tail(s), i - s[1].n)

RECURSIVE Bytes(_)
\* bytes([...])
Bytes(q) == IF q = <<>> THEN <<>> ELSE RCat(<<Run(q[1], 1)>>, Bytes(Tail(q)))

\* struct.pack(">I", n)
Pack(n) ==
    Bytes(<<(n \div 16777216) % 256, (n \div 65536) % 256, (n \div 256) % 256, n % 256>>)

\* struct.unpack(">I", b)[0]
Unpack(s) ==
    RByte(s, 1) * 16777216 + RByte(s, 2) * 65536 + RByte(s, 3) * 256 + RByte(s, 4)

\* an envelope reduced to one string of n copies of the character c
FrameEnv(c, n) == [c |-> IF n = 0 THEN 0 ELSE c, n |-> n]

\* envelopes of 2 bytes up to 100 MiB once encoded
FrameEnvs ==
    {FrameEnv(c, n) : c \in {120, 123},
                      n \in (0..MaxBody) \cup {254, 100 * 1024 * 1024 - 2}}

\* json.dumps(e).encode("utf-8"): an opening byte, the string, a closing byte
Dumps(e) ==
    RCat(RCat(Bytes(<<123>>), IF e.n = 0 THEN <<>> ELSE <<Run(e.c, e.n)>>),
         Bytes(<<125>>))

\* json.loads(data.decode("utf-8"))
Loads(s) ==
    IF RLen(s) < 2 THEN "badjson"
    ELSE IF RByte(s, 1) # 123 \/ RByte(s, RLen(s)) # 125 THEN "badjson"
    ELSE LET body == RDrop(RTake(s, RLen(s) - 1), 1)
         IN  IF body = <<>> THEN FrameEnv(0, 0)
             ELSE IF Len(body) = 1 THEN FrameEnv(body[1].b, body[1].n)
             ELSE "badjson"

\* values of ASYA_CHUNK_SIZE: int() accepts any integer
ChunkSizes == {-1, 0, 1, 2, DefaultChunkSize, 64 * 1024 * 1024}

\* _send_envelope: sock.sendall(length + data)
SendEnvelope ==
    /\ wire.phase = "idle"
    /\ \E e \in FrameEnvs :
        /\ wire.chunk > 0 => RLen(Dumps(e)) \div wire.chunk <= MaxReads
        /\ wire' = [wire EXCEPT !.phase = "len", !.env = e,
                                !.pending = RCat(Pack(RLen(Dumps(e))), Dumps(e)),
                                !.need = 4, !.got = <<>>, !.length = 0,
                                !.shorts = 0, !.parsed = "none"]
    /\ UNCHANGED <<mode, validation>>
    /\ UNCHANGED runtimeVars
    /\ UNCHANGED sidecarVars
    /\ UNCHANGED <<boot, descriptor, sock, instances, memo, seen, bucket, proc, progress>>

\* one pass of the loop of _recv_exact: recv(min(remaining, ASYA_CHUNK_SIZE))
\* returns what has arrived, at least one byte and at most what was asked for;
\* asked for nothing it returns b"", asked for less it raises ValueError
RecvChunk ==
    /\ wire.phase \in {"len", "body"}
    /\ wire.need > 0
    /\ \E asked \in {Min(wire.need, wire.chunk)} :
        IF asked <= 0
        THEN wire' = [wire EXCEPT !.phase = "error"]
        ELSE \E arrived \in {1, 2, RLen(wire.pending)} :
             \E k \in {Min(asked, arrived)} :
                /\ k > 0
                /\ k < asked => wire.shorts < MaxShort
                /\ wire' = [wire EXCEPT
                                !.got = RCat(wire.got, RTake(wire.pending, k)),
                                !.pending = RDrop(wire.pending, k),
                                !.need = wire.need - k,
                                !.shorts = IF k < asked THEN wire.shorts + 1
                                           ELSE wire.shorts]
    /\ UNCHANGED <<mode, validation>>
    /\ UNCHANGED runtimeVars
    /\ UNCHANGED sidecarVars
    /\ UNCHANGED <<boot, descriptor, sock, instances, memo, seen, bucket, proc, progress>>

\* length = struct.unpack(">I", length_bytes)[0]
LengthRead ==
    /\ wire.phase = "len"
    /\ wire.need = 0
    /\ wire' = [wire EXCEPT !.phase = "body", !.length = Unpack(wire.got),
                            !.need = Unpack(wire.got), !.got = <<>>]
    /\ UNCHANGED <<mode, validation>>
    /\ UNCHANGED runtimeVars
    /\ UNCHANGED sidecarVars
    /\ UNCHANGED <<boot, descriptor, sock, instances, memo, seen, bucket, proc, progress>>

\* e = _parse_envelope_json(data)
ParseBody ==
    /\ wire.phase = "body"
    /\ wire.need = 0
    /\ wire' = [wire EXCEPT !.phase = "parsed", !.parsed = Loads(wire.got)]
    /\ UNCHANGED <<mode, validation>>
    /\ UNCHANGED runtimeVars
    /\ UNCHANGED sidecarVars
    /\ UNCHANGED <<boot, descriptor, sock, instances, memo, seen, bucket, proc, progress>>

\* the connection is closed and the next one accepted
FrameDone ==
    /\ wire.phase \in {"parsed", "error"}
    /\ wire' = NoFrame(wire.chunk)
    /\ UNCHANGED <<mode, validation>>
    /\ UNCHANGED runtimeVars
    /\ UNCHANGED sidecarVars
    /\ UNCHANGED <<boot, descriptor, sock, instances, memo, seen, bucket, proc, progress>>

FrameInit ==
    /\ boot = "ready"
    /\ descriptor = "function"
    /\ sock = "listening"
    /\ instances = 0
    /\ memo = 0
    /\ seen = 0
    /\ bucket = {}
    /\ wire \in {NoFrame(c) : c \in ChunkSizes}
    /\ proc = InLoop
    /\ progress = NoProgress
    /\ mode \in VALID_ASYA_HANDLER_MODES
    /\ validation \in BOOLEAN
    /\ rpc = "accept"
    /\ openConns = 0
    /\ req = NoRequest
    /\ hinfo = NotCalled
    /\ resp = NoResponse
    /\ sent = "pending"
    /\ errAnswered = FALSE
    /\ SidecarIdle

FrameNext == SendEnvelope \/ RecvChunk \/ LengthRead \/ ParseBody \/ FrameDone

FrameSpec == FrameInit /\ [][FrameNext]_vars

\* the frame is read back whole and parses to the envelope that was sent
RoundTrip ==
    /\ wire.phase # "error"
    /\ wire.phase = "body" => wire.length = RLen(Dumps(wire.env))
    /\ wire.phase = "parsed" => wire.parsed = wire.env

\* C27: every envelope of at most 100 MiB that is written as a frame is read
\* back as the same envelope, however the bytes arrive on the socket.
C27_FramingRoundTrip == RoundTrip

\* the round trip with a chunk size of at least one byte
RoundTripWithPositiveChunk == wire.chunk > 0 => RoundTrip

\* ------------------------------------------- envelope mode: validated routes
\* the envelope the handler was called with
GivenEnvelope == HandlerInput(validation, req)

\* an envelope handler was called with a validated input and returned values
ValidatedEnvelopeCall ==
    /\ Answered
    /\ mode = "envelope"
    /\ validation
    /\ hinfo.called
    /\ hinfo.ret \in {"single", "list"}

\* a well-formed envelope: payload, a route with a non-empty list of actors
\* and an integer cursor within 0..len(actors), dict headers, string id
WellFormed(o) ==
    /\ o.kind = "dict"
    /\ o.payload \notin {"absent", "unser"}
    /\ o.route.kind = "dict"
    /\ o.route.actorsKind = "list"
    /\ o.route.currentKind = "int"
    /\ Len(o.route.actors) > 0
    /\ o.route.current >= 0
    /\ o.route.current <= Len(o.route.actors)
    /\ o.headers # "nondict"
    /\ o.id # "nonstr"

\* C40: an envelope handler that returns the envelope it was given gets that
\* one envelope back in a non-error response, whatever the input's cursor.
C40_EchoReturned ==
    (ValidatedEnvelopeCall /\ hinfo.outs = <<GivenEnvelope>>) =>
        resp = OkResponse(<<GivenEnvelope>>)

\* C31: a well-formed output that keeps positions 0..k of the input route and
\* differs only after k is accepted and returned with the route it carries.
C31_FutureActorsAccepted ==
    (ValidatedEnvelopeCall /\ ~hinfo.inplace) =>
        ((\A i \in 1..hinfo.n :
                /\ WellFormed(hinfo.outs[i])
                /\ KeepsProcessedPrefix(GivenEnvelope.route, hinfo.outs[i]))
            => resp = OkResponse(hinfo.outs))

\* C37: an output whose cursor is below the input's cursor is answered with
\* processing_error.
C37_LowerCurrentRejected ==
    (ValidatedEnvelopeCall /\ ~hinfo.inplace) =>
        ((\E i \in 1..hinfo.n :
                /\ hinfo.outs[i].route.currentKind = "int"
                /\ hinfo.outs[i].route.current < GivenEnvelope.route.current)
            => (resp.kind = "error" /\ resp.code = "processing_error"))

\* C38: with validation on every envelope of a non-error response has a
\* non-empty list of actors and a cursor within 0..len(actors).
C38_CursorInBounds ==
    (Answered /\ validation /\ resp.kind = "ok") =>
        \A i \in 1..Len(resp.outs) :
            /\ resp.outs[i].route.kind = "dict"
            /\ resp.outs[i].route.actorsKind = "list"
            /\ Len(resp.outs[i].route.actors) > 0
            /\ resp.outs[i].route.current >= 0
            /\ resp.outs[i].route.current <= Len(resp.outs[i].route.actors)

\* ------------------------------------------------- one response, then close
\* C39: on every accepted connection the one attempt to write a response,
\* whatever its outcome and whatever happened while reading, is followed by
\* closing the connection; nothing is written after it.
C39_ClosedAfterOneResponse ==
    [][/\ (rpc = "send" => (sent = "pending" /\ rpc' = "close"))
       /\ (sent # "pending" =>
               (rpc = "close" /\ openConns = 1 /\ openConns' = 0 /\ sent' = "pending"))]_vars

\* a connection whose request could not be read and whose peer was gone is
\* at close, after an earlier connection was served
C39_Witness ==
    /\ errAnswered
    /\ rpc = "close"
    /\ openConns = 1
    /\ req.read = "oserror"
    /\ sent = "brokenpipe"

\* ------------------------------------------------------ the hop to actors[k+1]
\* a payload handler returned one value for an input that has a next actor
OneOutputMidRoute ==
    /\ mode = "payload"
    /\ hop \in {"answered", "recovered"}
    /\ hinfo.called
    /\ hinfo.n = 1
    /\ sresp.kind = "ok"
    /\ msg.route.current + 1 < Len(msg.route.actors)

\* the input envelope with the returned payload, one position further on
NextHopEnvelope ==
    [msg EXCEPT !.payload = sresp.outs[1].payload, !.route.current = @ + 1]

\* C35: one output of a payload handler at position k, with k+1 < len(actors),
\* gives exactly one publish, to the queue of actors[k+1], of an envelope with
\* the input's id and actors and route.current = k+1.
C35_OneHopToNextActor ==
    OneOutputMidRoute =>
        /\ Len(sresp.outs) = 1
        /\ (Planned =>
                plan = <<Publication(msg.route.actors[msg.route.current + 2],
                                     NextHopEnvelope, "none")>>)
        /\ (pubs = <<>> \/ pubs = plan)
        /\ (acked => pubs = plan)

C35_Witness ==
    /\ OneOutputMidRoute
    /\ acked
    /\ msg.route.actors = <<"a", "b">>
    /\ msg.route.current = 0
    /\ Len(pubs) = 1
    /\ pubs[1].queue = "b"
    /\ pubs[1].env.id = "E1"
    /\ pubs[1].env.route.current = 1
    /\ pubs[1].env.route.actors = <<"a", "b">>

\* ------------------------------------------------- signals and the marker
\* handle_requests from its first line to its return, with SIGTERM and
\* SIGINT arriving at any point, seen by an observer of the socket directory.
Signals == {"SIGTERM", "SIGINT"}

\* the positions of handle_requests before the accept loop
Starting == {"start", "loaded", "listening", "opening", "marked"}

\* a signal before signal.signal has run: SIGTERM ends the process, SIGINT
\* raises KeyboardInterrupt, which no except clause of the startup catches;
\* the kernel closes the socket, the files stay
SignalAtStartup ==
    /\ boot \in Starting
    /\ ~proc.handlers
    /\ \E s \in Signals : proc' = [proc EXCEPT !.signal = s]
    /\ boot' = "killed"
    /\ sock' = IF sock = "listening" THEN "closed" ELSE sock
    /\ UNCHANGED <<mode, validation, descriptor, instances, memo, seen, bucket, wire, progress>>
    /\ UNCHANGED runtimeVars
    /\ UNCHANGED sidecarVars

\* a signal in the loop: _cleanup is called between two steps of the loop
SignalInLoop ==
    /\ boot = "ready"
    /\ proc.handlers
    /\ proc.cleanup = "idle"
    /\ \E s \in Signals : proc' = [proc EXCEPT !.signal = s, !.cleanup = "entered"]
    /\ UNCHANGED <<mode, validation, descriptor, boot, sock, instances, memo, seen, bucket, wire, progress>>
    /\ UNCHANGED runtimeVars
    /\ UNCHANGED sidecarVars

\* _cleanup: sock.close()
CleanupClose ==
    /\ proc.cleanup = "entered"
    /\ sock' = "closed"
    /\ proc' = [proc EXCEPT !.cleanup = "closed"]
    /\ UNCHANGED <<mode, validation, descriptor, boot, instances, memo, seen, bucket, wire, progress>>
    /\ UNCHANGED runtimeVars
    /\ UNCHANGED sidecarVars

\* _cleanup: os.unlink(SOCKET_PATH)
CleanupUnlinkSocket ==
    /\ proc.cleanup = "closed"
    /\ proc' = [proc EXCEPT !.sockfile = FALSE, !.cleanup = "unlinked"]
    /\ UNCHANGED <<mode, validation, descriptor, boot, sock, instances, memo, seen, bucket, wire, progress>>
    /\ UNCHANGED runtimeVars
    /\ UNCHANGED sidecarVars

\* _cleanup: os.unlink(ready_file), and the return to the interrupted loop
CleanupUnlinkReady ==
    /\ proc.cleanup = "unlinked"
    /\ proc' = [proc EXCEPT !.marker = "absent", !.cleanup = "done"]
    /\ UNCHANGED <<mode, validation, descriptor, boot, sock, instances, memo, seen, bucket, wire, progress>>
    /\ UNCHANGED runtimeVars
    /\ UNCHANGED sidecarVars

\* the main thread runs only when _cleanup is not running
MainRuns == proc.cleanup \in {"idle", "done"}

\* conn, _ = sock.accept() returns a connection
ConnAccepted ==
    /\ boot = "ready"
    /\ MainRuns
    /\ sock = "listening"
    /\ ~proc.busy
    /\ proc' = [proc EXCEPT !.busy = TRUE]
    /\ UNCHANGED <<mode, validation, descriptor, boot, sock, instances, memo, seen, bucket, wire, progress>>
    /\ UNCHANGED runtimeVars
    /\ UNCHANGED sidecarVars

\* the request is handled, the response sent, conn.close()
ConnServed ==
    /\ boot = "ready"
    /\ MainRuns
    /\ proc.busy
    /\ proc' = [proc EXCEPT !.busy = FALSE]
    /\ UNCHANGED <<mode, validation, descriptor, boot, sock, instances, memo, seen, bucket, wire, progress>>
    /\ UNCHANGED runtimeVars
    /\ UNCHANGED sidecarVars

\* sock.accept() on the closed socket raises OSError: break, then the
\* finally clause calls _cleanup once more, which finds nothing left to do
LoopEnds ==
    /\ boot = "ready"
    /\ MainRuns
    /\ ~proc.busy
    /\ sock = "closed"
    /\ boot' = "stopped"
    /\ UNCHANGED <<mode, validation, descriptor, sock, instances, memo, seen, bucket, wire, proc, progress>>
    /\ UNCHANGED runtimeVars
    /\ UNCHANGED sidecarVars

\* the container starts the runtime again in the same socket directory
Restart ==
    /\ boot \in {"exited", "stopped", "killed"}
    /\ boot' = "start"
    /\ sock' = "none"
    /\ instances' = 0
    /\ proc' = [Fresh EXCEPT !.sockfile = proc.sockfile, !.marker = proc.marker]
    /\ UNCHANGED <<mode, validation, descriptor, memo, seen, bucket, wire, progress>>
    /\ UNCHANGED runtimeVars
    /\ UNCHANGED sidecarVars

LifeInit == StartInit

LifeNext ==
    \/ LoadHandler
    \/ SetupSocket
    \/ OpenReadyFile
    \/ WriteReadyFile
    \/ EnterLoop
    \/ SignalAtStartup
    \/ SignalInLoop
    \/ CleanupClose
    \/ CleanupUnlinkSocket
    \/ CleanupUnlinkReady
    \/ ConnAccepted
    \/ ConnServed
    \/ LoopEnds
    \/ Restart

LifeSpec == LifeInit /\ [][LifeNext]_vars

\* the process has ended after a signal
EndedBySignal == proc.signal # "none" /\ boot \in {"stopped", "killed"}

\* C32: once SIGTERM or SIGINT has been delivered and the process has come
\* to its end, the listening socket is closed and neither the socket file
\* nor the ready marker exists.
C32_SignalCleansUp ==
    EndedBySignal =>
        /\ sock # "listening"
        /\ ~proc.sockfile
        /\ proc.marker = "absent"

\* C33: whenever the ready marker exists, the handler is loaded and the
\* socket is bound and listening.
C33_MarkerMeansAccepting ==
    proc.marker # "absent" =>
        /\ boot \in {"opening", "marked", "ready"}
        /\ sock = "listening"

\* C34: an observer of the socket directory finds the ready marker absent
\* or holding its complete content.
C34_MarkerWrittenAtomically == proc.marker \in {"absent", "complete"}

\* ------------------------------------------------------- progress events
\* The sidecar's consume loops take envelopes through received,
\* processing-started and finished; each transition puts an event on the
\* progress channel, and the one progress-emission task sends the events to
\* the gateway.
Stages == <<"received", "processing", "finished">>

\* how many of the three points an envelope in this state has passed
StageIndex(st) ==
    CASE st = "queued" -> 0
      [] st = "received" -> 1
      [] st = "processing" -> 2
      [] st = "finished" -> 3

ProgressEvent(i, st) == [id |-> i, status |-> st]

\* a consume loop observes the next state transition of envelope i
Observe(i) ==
    /\ progress.stage[i] # "finished"
    /\ LET st == Stages[StageIndex(progress.stage[i]) + 1]
       IN  progress' = [progress EXCEPT !.stage[i] = st,
                                        !.channel = Append(@, ProgressEvent(i, st))]
    /\ UNCHANGED <<mode, validation, boot, descriptor, sock, instances, memo, seen, bucket, wire, proc>>
    /\ UNCHANGED runtimeVars
    /\ UNCHANGED sidecarVars

\* the positions of the channel the emission task may take its next event from
NextOnChannel_AnyPosition(ch) == 1..Len(ch)

NextOnChannel(ch) == {k \in 1..Len(ch) : k = 1}

\* the progress-emission task sends one event to the gateway
Emit ==
    /\ \E k \in NextOnChannel(progress.channel) :
        progress' = [progress EXCEPT
            !.channel = SubSeq(@, 1, k - 1) \o SubSeq(@, k + 1, Len(@)),
            !.emitted = Append(@, progress.channel[k])]
    /\ UNCHANGED <<mode, validation, boot, descriptor, sock, instances, memo, seen, bucket, wire, proc>>
    /\ UNCHANGED runtimeVars
    /\ UNCHANGED sidecarVars

ProgressInit == Init

ProgressNext == (\E i \in Envelopes : Observe(i)) \/ Emit

ProgressSpec == ProgressInit /\ [][ProgressNext]_vars

\* the statuses of the events emitted so far for envelope i, in order
EmittedFor(i) ==
    LET own == SelectSeq(progress.emitted, LAMBDA e : e.id = i)
    IN  [k \in 1..Len(own) |-> own[k].status]

\* the states the sidecar has gone through with envelope i, in order
ObservedFor(i) == SubSeq(Stages, 1, StageIndex(progress.stage[i]))

\* C36: for every envelope id the events emitted so far are, in order, the
\* first of the states the sidecar has gone through with that envelope:
\* received, then processing-started, then finished.
C36_EventsInStateOrder ==
    \A i \in Envelopes :
        /\ Len(EmittedFor(i)) <= Len(ObservedFor(i))
        /\ EmittedFor(i) = SubSeq(ObservedFor(i), 1, Len(EmittedFor(i)))

\* every event of every envelope has been emitted, those of two envelopes
\* interleaved
C36_Witness ==
    /\ Len(progress.emitted) = 3 * MaxEnvelopes
    /\ progress.emitted[1].id # progress.emitted[2].id
    /\ progress.emitted[Len(progress.emitted)].id = progress.emitted[1].id
    /\ \A i \in Envelopes : EmittedFor(i) = Stages

====
